---- MODULE Spec2Model ----
(***************************************************************************)
(* Model of the NAT UI launcher: simple_workflow/helpers/ui_manager.py     *)
(* (class UIManager) and its driver simple_workflow/web_ui.py.             *)
(*                                                                         *)
(* The foreground thread is a call stack of labels; a label "Lnnn" is the  *)
(* statement at line nnn of ui_manager.py, "Mnn" the one at line nn of     *)
(* web_ui.py.  The two capture threads of every launched child, the child  *)
(* processes themselves and the delivery of SIGINT/SIGTERM are the other   *)
(* processes of the model.                                                 *)
(***************************************************************************)
EXTENDS Integers, Sequences, FiniteSets, TLC

\* ---------------------------------------------------------------- bounds
\* operator calls (start/stop/get_status) made on the instance by a notebook
MaxCalls == 2
\* SIGINT/SIGTERM deliveries in one run of web_ui.py
MaxSignals == 2
\* lines the children write to their pipes in one run
MaxLines == 1
\* lines the child writes while the monitor loop runs on a nearly full buffer
MaxCaptureLines == 3

\* the lines of a .env file found by start()
MaxEnvLines == 3

\* ------------------------------------------------------ program constants
\* ui_manager.py:195  max_retries = 2
max_retries == 2
\* ui_manager.py:354  if len(self.process_output) > 100
MaxOutputLines == 100
\* ui_manager.py:456  for attempt in range(5)
HttpProbeTries == 5

None == 0
NoThread == 0
Foreground == -1

VARIABLES
    stack,           \* call stack of the foreground thread, innermost last
    loc,             \* locals of the current (or last) start() call
    ret,             \* value returned by the last start() or get_status() call,
                     \* then the exit status sys.exit was called with
    ui_process,      \* self.ui_process: None or the child (Popen) it tracks
    process_output,  \* self.process_output
    output_lock,     \* holder of self.output_lock
    ui_path_exists,  \* self.ui_path.exists()
    env_file,        \* the lines of self.ui_path / ".env"; << >> when there is none
    launched,        \* number of children spawned by Popen so far
    alive,           \* children that have not exited
    termDelivered,   \* per child: SIGTERM signals delivered to it
    killed,          \* children that were sent SIGKILL
    tpc,             \* per capture thread: its position
    tline,           \* per capture thread: the line it read and has yet to append
    tpipe,           \* per capture thread: the child whose pipe it reads
    unwritten,       \* lines the children will still write to their pipes
    arrived,         \* every line appended to process_output, in order (history)
    calls,           \* operator calls made so far (notebook use)
    signals,         \* signals delivered so far
    platform         \* sys.platform: "unix" or "win32"

vars == <<stack, loc, ret, ui_process, process_output, output_lock, ui_path_exists, env_file,
          launched, alive, termDelivered, killed, tpc, tline, tpipe, unwritten,
          arrived, calls, signals, platform>>

Children == 1 .. MaxCalls
Threads  == 1 .. (2 * MaxCalls)
\* the thread started for the stdout (odd) or stderr (even) of the k-th child
StdoutThread(k) == 2 * k - 1
StderrThread(k) == 2 * k
StreamOf(t) == IF t % 2 = 1 THEN "STDOUT" ELSE "STDERR"

LineKinds == {"plain", "error", "compiled", "compiling"}

\* ------------------------------------------------------------ call stack
Top == stack[Len(stack)]
At(l) == Top = l
Goto(l) == [stack EXCEPT ![Len(stack)] = l]
\* call: the caller resumes at `back`, the callee starts at `entry`
Call(back, entry) == Append(Goto(back), entry)
Return == SubSeq(stack, 1, Len(stack) - 1)

Exited == At("exited")

\* locals of start() as they are before line 130 runs
InitLoc ==
    [ spawned |-> << >>,            \* subprocesses spawned by this call (history)
      port_busy |-> FALSE,          \* line 153: not _check_port_available(ui_port)
      response |-> "",              \* line 157
      it |-> 0,                     \* iterator of range(max_retries), line 200
      attempt |-> 0,                \* line 200
      use_npm_install |-> FALSE,    \* line 197
      use_legacy_peer_deps |-> FALSE, \* line 198
      install_ok |-> FALSE,         \* line 228 was reached (history)
      charged |-> 0,                \* timeouts and unrecognized failures (history)
      last_cmd |-> "",              \* the last install command line (history)
      failure |-> "",               \* how the last install run failed (history)
      markers |-> {},               \* markers in the output of that failure (history)
      pending |-> None,             \* value of Popen(...) before it is assigned
      wait_port |-> 0,              \* _wait_for_port: port
      gateway_ready |-> "unset",    \* line 397
      nextjs_ready |-> "unset",     \* line 424
      compiled |-> FALSE,           \* line 432
      probe |-> 0,                  \* line 456: attempt of the HTTP probe
      http |-> "",                  \* line 459: what the last urlopen met (history)
      recent_output |-> << >>,      \* lines 386, 403, 410, 483
      error_lines |-> << >>,        \* lines 391, 415
      warned |-> {},                \* warnings printed by this call
      error_msg |-> "" ]            \* the RuntimeError raised, printed at line 493

Raise(l, msg) == [l EXCEPT !.error_msg = msg]
Spawn(l, what) == [l EXCEPT !.spawned = Append(@, what)]

\* the state after `ui_manager = UIManager()` (lines 19-44, 566), with the
\* foreground about to run `first`
Constructed(first) ==
    /\ stack = << first >>
    /\ loc = InitLoc
    /\ ret = "none"
    /\ ui_process = None
    /\ process_output = << >>
    /\ output_lock = NoThread
    /\ ui_path_exists \in BOOLEAN
    /\ env_file = << >>
    /\ launched = 0
    /\ alive = {}
    /\ termDelivered = [c \in Children |-> 0]
    /\ killed = {}
    /\ tpc = [t \in Threads |-> "none"]
    /\ tline = [t \in Threads |-> << >>]
    /\ tpipe = [t \in Threads |-> None]
    /\ unwritten = MaxLines
    /\ arrived = << >>
    /\ calls = 0
    /\ signals = 0
    /\ platform \in {"unix", "win32"}

\* web_ui.py is run as a script: line 16 is next
Init == Constructed("M16")

\* the module is imported by a notebook, which calls the instance's methods
InitLib == Constructed("idle")

\* variables the foreground's purely local steps leave alone
Shared == <<ui_process, process_output, output_lock, ui_path_exists, env_file, launched, alive,
            termDelivered, killed, tpc, tline, tpipe, unwritten, arrived, calls,
            signals, platform>>

\* --------------------------------------------------- start(): lines 130-191

\* a faulty prerequisite check that reports the missing tool and goes on
CheckAndGoOn(label, tool, next, msg) ==
    /\ At(label)
    /\ \E ok \in BOOLEAN :
        /\ loc' = IF ok THEN Spawn(loc, tool)
                        ELSE Raise(Spawn(loc, tool), msg)
        /\ stack' = Goto(next)
    /\ UNCHANGED <<ret, Shared>>

\* _check_command_exists(command), lines 76-97: one "--version" subprocess;
\* True iff it ran and exited 0 within 5 s; lines 133-140: a RuntimeError when
\* it is False
CheckCommandExists(label, tool, next, msg) ==
    /\ At(label)
    /\ \E ok \in BOOLEAN :
        /\ loc' = IF ok THEN Spawn(loc, tool)
                        ELSE Raise(Spawn(loc, tool), msg)
        /\ stack' = Goto(IF ok THEN next ELSE "L492")
    /\ UNCHANGED <<ret, Shared>>

\* lines 133-140
CheckPrerequisites ==
    \/ CheckCommandExists("L133", "git --version", "L136", "git is not installed")
    \/ CheckCommandExists("L136", "node --version", "L139", "Node.js is not installed")
    \/ CheckCommandExists("L139", "npm --version", "L146", "npm is not installed")

\* lines 145-150: the NAT server port only decides which message is printed
CheckNatPort ==
    /\ At("L146")
    /\ \E available \in BOOLEAN : loc' = loc
    /\ stack' = Goto("L153")
    /\ UNCHANGED <<ret, Shared>>

\* line 153 and the branch of lines 155/168
CheckUiPort ==
    /\ At("L153")
    /\ \E available \in BOOLEAN :
        IF available
        THEN /\ loc' = loc
             /\ stack' = Goto("L172")
        ELSE IF platform # "win32"
        THEN /\ loc' = [loc EXCEPT !.port_busy = TRUE]
             /\ stack' = Goto("L157")
        ELSE /\ loc' = Raise([loc EXCEPT !.port_busy = TRUE], "port already in use")
             /\ stack' = Goto("L492")
    /\ UNCHANGED <<ret, Shared>>

\* lines 157-158: the operator's answer; anything but "y" skips the block
AskKill ==
    /\ At("L157")
    /\ \E response \in {"y", "n"} :
        /\ loc' = [loc EXCEPT !.response = response]
        /\ stack' = Goto(IF response = "y" THEN "L160" ELSE "L172")
    /\ UNCHANGED <<ret, Shared>>

\* lines 159-167: the kill pipeline, then the port is checked again; a timeout
\* of the pipeline and a port still in use both end in the RuntimeError of 167
KillPortOwner ==
    /\ At("L160")
    /\ \E outcome \in {"freed", "still in use", "timeout"} :
        /\ loc' = IF outcome = "freed"
                  THEN Spawn(loc, "kill")
                  ELSE Raise(Spawn(loc, "kill"), "port in use and could not be freed")
        /\ stack' = Goto(IF outcome = "freed" THEN "L172" ELSE "L492")
    /\ UNCHANGED <<ret, Shared>>

\* lines 172-191: clone the UI repository unless the directory exists; a failed
\* clone may leave a partial directory behind
CloneRepo ==
    /\ At("L172")
    /\ IF ui_path_exists
       THEN /\ loc' = loc
            /\ stack' = Goto("L195")
            /\ UNCHANGED ui_path_exists
       ELSE \E outcome \in {"ok", "timeout", "failed"} :
            /\ loc' = IF outcome = "ok"
                      THEN Spawn(loc, "git clone")
                      ELSE Raise(Spawn(loc, "git clone"),
                                 IF outcome = "timeout" THEN "git clone timed out"
                                                        ELSE "failed to clone repository")
            /\ stack' = Goto(IF outcome = "ok" THEN "L195" ELSE "L492")
            /\ IF outcome = "ok" THEN ui_path_exists' = TRUE
                                 ELSE ui_path_exists' \in BOOLEAN
    /\ UNCHANGED <<ret, ui_process, process_output, output_lock, env_file, launched,
                   alive, termDelivered, killed, tpc, tline, tpipe, unwritten, arrived,
                   calls, signals, platform>>

\* --------------------------------------------------- start(): lines 193-267

\* a faulty command line that never switches to 'npm install'
InstallCommandCi(l) ==
    << "npm", "ci", IF l.use_legacy_peer_deps THEN "--legacy-peer-deps" ELSE "" >>

\* lines 203-204 and 217-219: the install command line
InstallCommand(l) ==
    << "npm",
       IF l.use_npm_install THEN "install" ELSE "ci",
       IF l.use_legacy_peer_deps THEN "--legacy-peer-deps" ELSE "" >>

\* lines 238-240: the lockfile markers are in the output and the flag is unset
IsLockfileMismatch(l, lock) == ~l.use_npm_install /\ lock

\* a faulty test that takes the peer-dependency branch whatever the flag
IsPeerConflictAgain(l, peer) == peer

\* lines 246-248: the peer-dependency markers are in the output and the flag is unset
IsPeerConflict(l, peer) == ~l.use_legacy_peer_deps /\ peer

\* lines 231 and 263: another pass of the for loop is left
HasRetryLeft(l) == l.attempt < max_retries - 1

\* lines 195-198
InstallInit ==
    /\ At("L195")
    /\ loc' = [loc EXCEPT !.it = 0, !.use_npm_install = FALSE,
                          !.use_legacy_peer_deps = FALSE]
    /\ stack' = Goto("L200")
    /\ UNCHANGED <<ret, Shared>>

\* line 200: for attempt in range(max_retries); an exhausted range ends the loop
\* and control falls through to line 269
InstallLoopHead ==
    /\ At("L200")
    /\ IF loc.it < max_retries
       THEN /\ loc' = [loc EXCEPT !.attempt = loc.it, !.it = loc.it + 1]
            /\ stack' = Goto("L207")
       ELSE /\ loc' = loc
            /\ stack' = Goto("L270")
    /\ UNCHANGED <<ret, Shared>>

\* lines 230-234: except TimeoutExpired
OnInstallTimeout(l) ==
    IF HasRetryLeft(l)
    THEN [loc |-> [l EXCEPT !.charged = @ + 1], next |-> "L200"]
    ELSE [loc |-> Raise([l EXCEPT !.charged = @ + 1],
                        "npm install timed out after retries"),
          next |-> "L492"]

\* a faulty handler whose flag flips run the command again at once, outside
\* the count of the for loop
OnInstallErrorFreeFlip(l, lock, peer) ==
    IF IsLockfileMismatch(l, lock)
    THEN [loc |-> [l EXCEPT !.use_npm_install = TRUE], next |-> "L207"]
    ELSE IF IsPeerConflict(l, peer)
    THEN [loc |-> [l EXCEPT !.use_legacy_peer_deps = TRUE], next |-> "L207"]
    ELSE IF HasRetryLeft(l)
    THEN [loc |-> [l EXCEPT !.charged = @ + 1], next |-> "L200"]
    ELSE [loc |-> Raise([l EXCEPT !.charged = @ + 1],
                        "failed to install dependencies"),
          next |-> "L492"]

\* lines 235-267: except CalledProcessError; lock and peer say whether the
\* combined output holds a lockfile marker and a peer-dependency marker
OnInstallError(l, lock, peer) ==
    IF IsLockfileMismatch(l, lock)
    THEN [loc |-> [l EXCEPT !.use_npm_install = TRUE], next |-> "L200"]
    ELSE IF IsPeerConflict(l, peer)
    THEN [loc |-> [l EXCEPT !.use_legacy_peer_deps = TRUE], next |-> "L200"]
    ELSE IF HasRetryLeft(l)
    THEN [loc |-> [l EXCEPT !.charged = @ + 1], next |-> "L200"]
    ELSE [loc |-> Raise([l EXCEPT !.charged = @ + 1],
                        "failed to install dependencies"),
          next |-> "L492"]

\* lines 201-229: one run of the install subprocess
RunInstall ==
    /\ At("L207")
    /\ \E outcome \in {"ok", "timeout", "error"}, lock \in BOOLEAN, peer \in BOOLEAN :
        /\ outcome # "error" => ~lock /\ ~peer
        /\ LET l == [Spawn(loc, "npm install") EXCEPT
                        !.last_cmd = InstallCommand(loc),
                        !.failure = IF outcome = "ok" THEN "" ELSE outcome,
                        !.markers = (IF lock THEN {"lockfile"} ELSE {})
                                       \cup (IF peer THEN {"peer"} ELSE {})]
               r == IF outcome = "ok"
                    THEN [loc |-> [l EXCEPT !.install_ok = TRUE], next |-> "L270"]
                    ELSE IF outcome = "timeout"
                    THEN OnInstallTimeout(l)
                    ELSE OnInstallError(l, lock, peer)
           IN  /\ loc' = r.loc
               /\ stack' = Goto(r.next)
    /\ UNCHANGED <<ret, Shared>>

\* --------------------------------------------------- start(): lines 269-377

\* No line after 298 reads the locals of sections 1 to 5 (response, attempt,
\* the two install flags): once the setup is done they are dropped, with the
\* history kept about the setup, so that the launch and the readiness phases
\* do not depend on how the setup went; install_ok is kept
SetupDone(l) ==
    [l EXCEPT !.spawned = << >>, !.port_busy = FALSE, !.response = "", !.it = 0,
              !.attempt = 0, !.use_npm_install = FALSE,
              !.use_legacy_peer_deps = FALSE, !.charged = 0, !.last_cmd = "",
              !.failure = "", !.markers = {}]

\* A line of the .env file is the sequence of its characters, without the
\* newline; a name or a value the code never takes apart stands as one character.

NatBackendUrlKey == << "NAT_BACKEND_URL" >>

PortKey == << "PORT" >>

\* line 271: f"http://localhost:{self.nat_port}", nat_port being 8000 (line 39)
nat_backend_url == << "http://localhost:8000" >>

\* line 289: str(self.ui_port), ui_port being 3000 (line 38)
UiPortStr == << "3000" >>

RECURSIVE LStrip(_)
LStrip(s) == IF s # << >> /\ s[1] = " " THEN LStrip(Tail(s)) ELSE s

RECURSIVE RStrip(_)
RStrip(s) ==
    IF s # << >> /\ s[Len(s)] = " " THEN RStrip(SubSeq(s, 1, Len(s) - 1)) ELSE s

\* str.strip()
Strip(s) == RStrip(LStrip(s))

\* '=' in line
HasEquals(s) == \E i \in 1 .. Len(s) : s[i] = "="

\* where split('=', 1) cuts: the first '='
FirstEquals(s) ==
    CHOOSE i \in 1 .. Len(s) : s[i] = "=" /\ \A j \in 1 .. i - 1 : s[j] # "="

\* lines 278-279: the stripped line is not empty, is no comment and has an '='
IsAssignment(line) ==
    LET t == Strip(line) IN t # << >> /\ t[1] # "#" /\ HasEquals(t)

\* lines 280-281: key, value = line.split('=', 1), each stripped
KeyOf(line) ==
    LET t == Strip(line) IN Strip(SubSeq(t, 1, FirstEquals(t) - 1))

ValueOf(line) ==
    LET t == Strip(line) IN Strip(SubSeq(t, FirstEquals(t) + 1, Len(t)))

\* `key in env_vars`; a dict is the sequence of its items in insertion order
HasKey(d, key) == \E i \in 1 .. Len(d) : d[i].key = key

\* env_vars[key] = value: a key already there keeps its place
SetItem(d, key, value) ==
    IF HasKey(d, key)
    THEN [i \in 1 .. Len(d) |->
             IF d[i].key = key THEN [key |-> key, value |-> value] ELSE d[i]]
    ELSE Append(d, [key |-> key, value |-> value])

\* lines 275-281: read the assignments of the file into env_vars
RECURSIVE ReadEnv(_, _)
ReadEnv(lines, d) ==
    IF lines = << >> THEN d
    ELSE ReadEnv(Tail(lines),
                 IF IsAssignment(lines[1])
                 THEN SetItem(d, KeyOf(lines[1]), ValueOf(lines[1]))
                 ELSE d)

\* a faulty step that sets PORT whether or not the file has one
RequiredKeysForced(d) ==
    SetItem(SetItem(d, NatBackendUrlKey, nat_backend_url), PortKey, UiPortStr)

\* lines 284-289: NAT_BACKEND_URL is set, PORT only when it is absent
RequiredKeys(d) ==
    LET e == SetItem(d, NatBackendUrlKey, nat_backend_url)
    IN  IF HasKey(e, PortKey) THEN e ELSE SetItem(e, PortKey, UiPortStr)

\* lines 292-294: one line f"{key}={value}" for each item
WriteEnv(d) == [i \in 1 .. Len(d) |-> d[i].key \o << "=" >> \o d[i].value]

\* lines 269-294: the file the step leaves
RewriteEnv(file) == WriteEnv(RequiredKeys(ReadEnv(file, << >>)))

\* lines 270-298: rewrite the .env file; an I/O error is an unexpected
\* exception, handled at line 496 like a RuntimeError, that leaves the file as
\* it was (a failed read) or empty (a failed write after open(..., 'w'))
ConfigureEnv ==
    /\ At("L270")
    /\ \/ /\ env_file' = RewriteEnv(env_file)
          /\ loc' = SetupDone(loc)
          /\ stack' = Goto("L319")
       \/ /\ env_file' \in {env_file, << >>}
          /\ loc' = Raise(loc, "unexpected error")
          /\ stack' = Goto("L492")
    /\ UNCHANGED <<ret, ui_process, process_output, output_lock, ui_path_exists,
                   launched, alive, termDelivered, killed, tpc, tline, tpipe,
                   unwritten, arrived, calls, signals, platform>>

\* lines 319/331: subprocess.Popen spawns the child; the handle is not yet
\* stored in self.ui_process
PopenSpawn ==
    /\ At("L319")
    /\ \/ /\ launched < MaxCalls
          /\ launched' = launched + 1
          /\ alive' = alive \cup {launched + 1}
          /\ loc' = [Spawn(loc, "npm run dev") EXCEPT !.pending = launched + 1]
          /\ stack' = Goto("L331")
       \/ /\ loc' = Raise(loc, "failed to start UI server")
          /\ stack' = Goto("L492")
          /\ UNCHANGED <<launched, alive>>
    /\ UNCHANGED <<ret, ui_process, process_output, output_lock, ui_path_exists, env_file,
                   termDelivered, killed, tpc, tline, tpipe, unwritten, arrived, calls,
                   signals, platform>>

\* lines 319/331: self.ui_process = <the Popen object>
PopenAssign ==
    /\ At("L331")
    /\ ui_process' = loc.pending
    /\ stack' = Goto("L371")
    /\ UNCHANGED <<loc, ret, process_output, output_lock, ui_path_exists, env_file, launched,
                   alive, termDelivered, killed, tpc, tline, tpipe, unwritten, arrived,
                   calls, signals, platform>>

\* lines 371-374: the two daemon threads are started.  Thread.start() returns
\* once the thread runs, and the foreground then sleeps 3 s (line 381) before
\* it touches self.ui_process again: the first statements of the thread, the
\* test of line 343/358 and the binding of readline to the pipe of
\* self.ui_process at line 344/359, are taken with its start
StartThreads ==
    /\ At("L371")
    /\ tpc' = [tpc EXCEPT ![StdoutThread(loc.pending)] = "L344",
                          ![StderrThread(loc.pending)] = "L344"]
    /\ tpipe' = [tpipe EXCEPT ![StdoutThread(loc.pending)] = ui_process,
                            ![StderrThread(loc.pending)] = ui_process]
    /\ stack' = Goto("L384")
    /\ UNCHANGED <<loc, ret, ui_process, process_output, output_lock, ui_path_exists, env_file,
                   launched, alive, termDelivered, killed, tline, unwritten,
                   arrived, calls, signals, platform>>

\* --------------------------------------------------- start(): lines 379-490

\* s[-n:]
LastN(s, n) == IF Len(s) <= n THEN s ELSE SubSeq(s, Len(s) - n + 1, Len(s))

\* lines 391/415: the line holds one of the error keywords
IsErrorLine(line) == line.kind = "error"
ErrorLines(s) == SelectSeq(s, IsErrorLine)

\* line 440: a success marker and no in-progress marker in the joined text
IsCompiled(recent) ==
    /\ \E i \in 1 .. Len(recent) : recent[i].kind = "compiled"
    /\ \A i \in 1 .. Len(recent) : recent[i].kind # "compiling"

\* Popen.poll() is not None; None has no poll(), an AttributeError
HasExited(p) == p \notin alive

\* `self.ui_process.poll() is not None` at `label`: on to `dead` or `live`
PollAt(label, dead, live) ==
    /\ At(label)
    /\ IF ui_process = None
       THEN /\ loc' = Raise(loc, "unexpected error")
            /\ stack' = Goto("L492")
       ELSE /\ loc' = loc
            /\ stack' = Goto(IF HasExited(ui_process) THEN dead ELSE live)
    /\ UNCHANGED <<ret, Shared>>

\* `with self.output_lock:` entered by the foreground at `label`
LockAt(label, next) ==
    /\ At(label)
    /\ output_lock = NoThread
    /\ output_lock' = Foreground
    /\ stack' = Goto(next)
    /\ UNCHANGED <<loc, ret, ui_process, process_output, ui_path_exists, env_file, launched,
                   alive, termDelivered, killed, tpc, tline, tpipe, unwritten, arrived,
                   calls, signals, platform>>

\* the body of a `with self.output_lock:` that reads the last n lines, and its
\* exit; `msg` is the error raised right after it, if any
ReadLockedAt(label, n, next, msg) ==
    /\ At(label)
    /\ output_lock' = NoThread
    /\ loc' = IF msg = "" THEN [loc EXCEPT !.recent_output = LastN(process_output, n)]
              ELSE Raise([loc EXCEPT !.recent_output = LastN(process_output, n)], msg)
    /\ stack' = Goto(next)
    /\ UNCHANGED <<ret, ui_process, process_output, ui_path_exists, env_file, launched,
                   alive, termDelivered, killed, tpc, tline, tpipe, unwritten, arrived,
                   calls, signals, platform>>

\* the body of a `with self.output_lock:` that only prints lines of the buffer,
\* and its exit
PrintLockedAt(label, next) ==
    /\ At(label)
    /\ output_lock' = NoThread
    /\ stack' = next
    /\ UNCHANGED <<loc, ret, ui_process, process_output, ui_path_exists, env_file, launched,
                   alive, termDelivered, killed, tpc, tline, tpipe, unwritten, arrived,
                   calls, signals, platform>>

\* a faulty scan that keeps the first 15 matching lines instead of the last
ScanErrorsFirst(label, msg) ==
    /\ At(label)
    /\ loc' = Raise([loc EXCEPT !.error_lines =
                        SubSeq(ErrorLines(process_output), 1,
                               IF Len(ErrorLines(process_output)) < 15
                               THEN Len(ErrorLines(process_output)) ELSE 15)],
                    msg)
    /\ stack' = Goto("L492")
    /\ UNCHANGED <<ret, Shared>>

\* lines 391/415: error_lines is computed from self.process_output outside the
\* lock, and the RuntimeError of line 394/418 is raised
ScanErrorsAt(label, msg) ==
    /\ At(label)
    /\ loc' = Raise([loc EXCEPT !.error_lines = LastN(ErrorLines(process_output), 15)],
                    msg)
    /\ stack' = Goto("L492")
    /\ UNCHANGED <<ret, Shared>>

\* lines 381-394: settle, then the immediate-crash check
SettleCheck ==
    \/ PollAt("L384", "L385", "L397")
    \/ LockAt("L385", "L386")
    \/ ReadLockedAt("L386", 50, "L391", "")
    \/ ScanErrorsAt("L391", "UI server process exited before gateway could start")

\* lines 397 and 424: the call of _wait_for_port
CallWaitForPort ==
    /\ \/ At("L397") /\ loc' = [loc EXCEPT !.wait_port = 3000]
       \/ At("L424") /\ loc' = [loc EXCEPT !.wait_port = 3099]
    /\ stack' = Goto("L112")
    /\ UNCHANGED <<ret, Shared>>

\* a faulty caller of _wait_for_port for which a timeout on either port is fatal
AfterWaitFatal(l, ready) ==
    IF l.wait_port = 3000
    THEN [loc |-> [l EXCEPT !.gateway_ready = ready],
          next |-> IF ready = "True" THEN "L401" ELSE "L408"]
    ELSE [loc |-> IF ready = "True"
                  THEN [l EXCEPT !.nextjs_ready = ready]
                  ELSE [l EXCEPT !.nextjs_ready = ready,
                                 !.warned = @ \cup {"Next.js dev server may not be ready yet"}],
          next |-> IF ready = "True" THEN "L434" ELSE "L492"]

\* where _wait_for_port's caller goes on with the value returned
AfterWait(l, ready) ==
    IF l.wait_port = 3000
    THEN [loc |-> [l EXCEPT !.gateway_ready = ready],
          next |-> IF ready = "True" THEN "L401" ELSE "L408"]
    ELSE [loc |-> IF ready = "True"
                  THEN [l EXCEPT !.nextjs_ready = ready]
                  ELSE [l EXCEPT !.nextjs_ready = ready,
                                 !.warned = @ \cup {"Next.js dev server may not be ready yet"}],
          next |-> IF ready = "True" THEN "L434" ELSE "L481"]

\* _wait_for_port, lines 108-116: poll until the port accepts a connection
\* (True) or the timeout has passed (False)
WaitForPort ==
    /\ At("L112")
    /\ \/ \E ready \in {"True", "False"} :
            /\ loc' = AfterWait(loc, ready).loc
            /\ stack' = Goto(AfterWait(loc, ready).next)
       \/ UNCHANGED <<loc, stack>>
    /\ UNCHANGED <<ret, Shared>>

\* a faulty gateway phase that goes on to the Next.js port without the poll of
\* line 401
GatewayPhaseNoPoll ==
    \/ PollAt("L401", "L424", "L424")
    \/ LockAt("L402", "L403")
    \/ ReadLockedAt("L403", 30, "L492", "Gateway started but process exited immediately")
    \/ PollAt("L408", "L409", "L420")
    \/ LockAt("L409", "L410")
    \/ ReadLockedAt("L410", 50, "L415", "")
    \/ ScanErrorsAt("L415", "UI server crashed during startup")
    \/ /\ At("L420")
       /\ loc' = Raise(loc, "Gateway did not start within 30 seconds")
       /\ stack' = Goto("L492")
       /\ UNCHANGED <<ret, Shared>>

\* lines 399-420: the gateway phase
GatewayPhase ==
    \/ PollAt("L401", "L402", "L424")
    \/ LockAt("L402", "L403")
    \/ ReadLockedAt("L403", 30, "L492", "Gateway started but process exited immediately")
    \/ PollAt("L408", "L409", "L420")
    \/ LockAt("L409", "L410")
    \/ ReadLockedAt("L410", 50, "L415", "")
    \/ ScanErrorsAt("L415", "UI server crashed during startup")
    \/ /\ At("L420")
       /\ loc' = Raise(loc, "Gateway did not start within 30 seconds")
       /\ stack' = Goto("L492")
       /\ UNCHANGED <<ret, Shared>>

\* a faulty wait that gives the call up when no success marker was seen
CompileWaitFatal ==
    \/ /\ At("L434")
       /\ \E timeout \in BOOLEAN : stack' = Goto(IF timeout THEN "L449" ELSE "L436")
       /\ UNCHANGED <<loc, ret, Shared>>
    \/ LockAt("L436", "L437")
    \/ /\ At("L437")
       /\ output_lock' = NoThread
       /\ LET recent == LastN(process_output, 10)
          IN  /\ loc' = [loc EXCEPT !.compiled = IsCompiled(recent)]
              /\ stack' = Goto(IF IsCompiled(recent) THEN "L449" ELSE "L446")
       /\ UNCHANGED <<ret, ui_process, process_output, ui_path_exists, env_file, launched,
                      alive, termDelivered, killed, tpc, tline, tpipe, unwritten,
                      arrived, calls, signals, platform>>
    \/ PollAt("L446", "L449", "L434")
    \/ /\ At("L449")
       /\ loc' = IF loc.compiled THEN [loc EXCEPT !.probe = 0]
                 ELSE [loc EXCEPT !.probe = 0,
                                  !.warned = @ \cup {"Next.js may still be compiling"}]
       /\ stack' = Goto(IF loc.compiled THEN "L459" ELSE "L492")
       /\ UNCHANGED <<ret, Shared>>

\* lines 434-452: wait for a compilation marker in the last 10 lines, then say
\* whether one was seen
CompileWait ==
    \/ /\ At("L434")
       /\ \E timeout \in BOOLEAN : stack' = Goto(IF timeout THEN "L449" ELSE "L436")
       /\ UNCHANGED <<loc, ret, Shared>>
    \/ LockAt("L436", "L437")
    \/ /\ At("L437")
       /\ output_lock' = NoThread
       /\ LET recent == LastN(process_output, 10)
          IN  /\ loc' = [loc EXCEPT !.compiled = IsCompiled(recent)]
              /\ stack' = Goto(IF IsCompiled(recent) THEN "L449" ELSE "L446")
       /\ UNCHANGED <<ret, ui_process, process_output, ui_path_exists, env_file, launched,
                      alive, termDelivered, killed, tpc, tline, tpipe, unwritten,
                      arrived, calls, signals, platform>>
    \/ PollAt("L446", "L449", "L434")
    \/ /\ At("L449")
       /\ loc' = IF loc.compiled THEN [loc EXCEPT !.probe = 0]
                 ELSE [loc EXCEPT !.probe = 0,
                                  !.warned = @ \cup {"Next.js may still be compiling"}]
       /\ stack' = Goto("L459")
       /\ UNCHANGED <<ret, Shared>>

\* lines 456-474: the HTTP probe.  urlopen returns for a 2xx status and raises
\* HTTPError for any other one, 404 included
HttpProbe ==
    \/ /\ At("L459")
       /\ \E answer \in {"200", "204", "404", "no connection"} :
            IF answer = "200"
            THEN /\ loc' = [loc EXCEPT !.http = answer]
                 /\ stack' = Goto("L481")
            ELSE IF answer = "204"
            THEN /\ loc' = [loc EXCEPT !.probe = @ + 1, !.http = answer]
                 /\ stack' = Goto(IF loc.probe + 1 < HttpProbeTries THEN "L459" ELSE "L481")
            ELSE IF loc.probe < HttpProbeTries - 1
            THEN /\ loc' = [loc EXCEPT !.probe = @ + 1, !.http = answer]
                 /\ stack' = Goto("L459")
            ELSE /\ loc' = [loc EXCEPT !.warned = @ \cup {"Next.js not responding"},
                                       !.http = answer]
                 /\ stack' = Goto("L470")
       /\ UNCHANGED <<ret, Shared>>
    \/ LockAt("L470", "L471")
    \/ PrintLockedAt("L471", Goto("L481"))

\* lines 481-490: the final health check and `return True`
FinalCheck ==
    \/ PollAt("L481", "L482", "L490")
    \/ LockAt("L482", "L483")
    \/ ReadLockedAt("L483", 30, "L492", "UI server process has crashed")
    \/ /\ At("L490")
       /\ ret' = "True"
       /\ stack' = Return
       /\ loc' = InitLoc
       /\ UNCHANGED Shared

\* --------------------------------------------------- start(): lines 492-499

\* a faulty handler that prints the error and does not call stop()
ExceptNoStop ==
    /\ At("L492")
    /\ stack' = Goto("L495")
    /\ UNCHANGED <<loc, ret, Shared>>

\* lines 492-494 and 496-498: print the error, call stop()
Except ==
    /\ At("L492")
    /\ stack' = Call("L495", "L503")
    /\ UNCHANGED <<loc, ret, Shared>>

\* lines 495/499: return False; the locals of the call end with it
ReturnFalse ==
    /\ At("L495")
    /\ ret' = "False"
    /\ stack' = Return
    /\ loc' = InitLoc
    /\ UNCHANGED Shared

\* --------------------------------------------------------- stop(), 501-513

\* the labels of stop() inside its try statement, whose finally clause runs
\* when an exception passes through
StopTry == {"L506", "L507", "L510", "L512"}

\* Popen.terminate(): SIGTERM, unless the exit of the child was already seen
Terminate(p) ==
    [termDelivered EXCEPT ![p] = IF p \in alive THEN @ + 1 ELSE @]

\* a faulty stop() without the test of line 503
StopCheckNoGuard ==
    /\ At("L503")
    /\ stack' = Goto("L506")
    /\ UNCHANGED <<loc, ret, Shared>>

\* line 503: if self.ui_process
StopCheck ==
    /\ At("L503")
    /\ stack' = IF ui_process = None THEN Return ELSE Goto("L506")
    /\ UNCHANGED <<loc, ret, Shared>>

\* a faulty stop() that goes to the wait without the terminate request
StopNoTerminate ==
    /\ At("L506")
    /\ stack' = Goto("L507")
    /\ UNCHANGED <<loc, ret, Shared>>

\* line 506: self.ui_process.terminate()
StopTerminate ==
    /\ At("L506")
    /\ termDelivered' = Terminate(ui_process)
    /\ stack' = Goto("L507")
    /\ UNCHANGED <<loc, ret, ui_process, process_output, output_lock, ui_path_exists, env_file,
                   launched, alive, killed, tpc, tline, tpipe, unwritten, arrived,
                   calls, signals, platform>>

\* line 507: self.ui_process.wait(timeout=5): the child has exited, exits
\* within the 5 s, or TimeoutExpired is raised
StopWait ==
    /\ At("L507")
    /\ \/ /\ alive' = alive \ {ui_process}
          /\ stack' = Goto("L512")
       \/ /\ ui_process \in alive
          /\ alive' = alive
          /\ stack' = Goto("L510")
    /\ UNCHANGED <<loc, ret, ui_process, process_output, output_lock, ui_path_exists, env_file,
                   launched, termDelivered, killed, tpc, tline, tpipe, unwritten,
                   arrived, calls, signals, platform>>

\* line 510: self.ui_process.kill()
StopKill ==
    /\ At("L510")
    /\ alive' = alive \ {ui_process}
    /\ killed' = killed \cup {ui_process}
    /\ stack' = Goto("L512")
    /\ UNCHANGED <<loc, ret, ui_process, process_output, output_lock, ui_path_exists, env_file,
                   launched, termDelivered, tpc, tline, tpipe, unwritten, arrived,
                   calls, signals, platform>>

\* a faulty stop() whose finally clause keeps the handle
StopFinallyKeep ==
    /\ At("L512")
    /\ stack' = Return
    /\ UNCHANGED <<loc, ret, Shared>>

\* a faulty stop() that joins the capture threads of the child before it
\* returns
StopFinallyJoin ==
    /\ At("L512")
    /\ \A t \in Threads :
          tpipe[t] = ui_process => (tpc[t] = "L344" /\ tpipe[t] \notin alive)
    /\ ui_process' = None
    /\ stack' = Return
    /\ UNCHANGED <<loc, ret, process_output, output_lock, ui_path_exists, env_file, launched,
                   alive, termDelivered, killed, tpc, tline, tpipe, unwritten, arrived,
                   calls, signals, platform>>

\* lines 511-513: finally: self.ui_process = None, and the return
StopFinally ==
    /\ At("L512")
    /\ ui_process' = None
    /\ stack' = Return
    /\ UNCHANGED <<loc, ret, process_output, output_lock, ui_path_exists, env_file, launched,
                   alive, termDelivered, killed, tpc, tline, tpipe, unwritten, arrived,
                   calls, signals, platform>>

\* ------------------------------------------------- _cleanup(), lines 118-125

\* line 120, and the end of the program when there is nothing to terminate
CleanupCheck ==
    /\ At("L120")
    /\ stack' = IF ui_process # None /\ ~HasExited(ui_process)
                THEN Goto("L121") ELSE <<"exited">>
    /\ UNCHANGED <<loc, ret, Shared>>

\* line 121
CleanupTerminate ==
    /\ At("L121")
    /\ termDelivered' = Terminate(ui_process)
    /\ stack' = Goto("L123")
    /\ UNCHANGED <<loc, ret, ui_process, process_output, output_lock, ui_path_exists, env_file,
                   launched, alive, killed, tpc, tline, tpipe, unwritten, arrived,
                   calls, signals, platform>>

\* lines 122-125: wait(timeout=5), kill() on TimeoutExpired
CleanupWait ==
    /\ At("L123")
    /\ \/ /\ alive' = alive \ {ui_process}
          /\ killed' = killed
       \/ /\ ui_process \in alive
          /\ alive' = alive \ {ui_process}
          /\ killed' = killed \cup {ui_process}
    /\ stack' = <<"exited">>
    /\ UNCHANGED <<loc, ret, ui_process, process_output, output_lock, ui_path_exists, env_file,
                   launched, termDelivered, tpc, tline, tpipe, unwritten, arrived,
                   calls, signals, platform>>

\* ------------------------------------------------- get_status(), 515-522

\* a faulty status that reports a tracked child as running without polling it
GetStatusNoPoll ==
    IF ui_process = None THEN "Not started" ELSE "Running"

\* lines 517-522; the PID and the exit code in the text are those of the
\* tracked child and are left out
GetStatus ==
    IF ui_process = None THEN "Not started"
    ELSE IF ~HasExited(ui_process) THEN "Running"
    ELSE "Stopped"

\* ------------------------------------------------------ web_ui.py, 15-41

ScriptLabels == {"M16", "M17", "M22", "M26", "M27", "M41", "in main", "in stop"}

\* line 16: ui_manager.start()
MainStart ==
    /\ At("M16")
    /\ stack' = Call("M17", "L133")
    /\ loc' = InitLoc
    /\ ret' = "none"
    /\ UNCHANGED Shared

\* lines 16-18 and 39-41: the branch on the value start() returned
MainBranch ==
    /\ At("M17")
    /\ stack' = Goto(IF ret = "True" THEN "M22" ELSE "M41")
    /\ UNCHANGED <<loc, ret, Shared>>

\* lines 21-36: one pass of the monitor loop; the script ends after a break
MainMonitor ==
    /\ At("M22")
    /\ stack' = IF ui_process = None THEN <<"L120">>
                ELSE IF HasExited(ui_process) THEN Goto("M26")
                ELSE stack
    /\ UNCHANGED <<loc, ret, Shared>>

\* lines 26-32: print the last 30 lines under the lock, then break
MainReport ==
    \/ LockAt("M26", "M27")
    \/ PrintLockedAt("M27", <<"L120">>)

\* a faulty script that ends with status 0 after a failed start()
MainExitZero ==
    /\ At("M41")
    /\ stack' = <<"L120">>
    /\ ret' = "exit 0"
    /\ UNCHANGED <<loc, Shared>>

\* line 41: sys.exit(1); the exit hook _cleanup runs.  The exit status asked
\* for is kept in ret
MainExit ==
    /\ At("M41")
    /\ stack' = <<"L120">>
    /\ ret' = "exit 1"
    /\ UNCHANGED <<loc, Shared>>

\* The frames a signal handler interrupts never run again: the handler ends
\* in sys.exit(0), and SystemExit is caught by none of them.  All they still
\* do is run their finally clauses while SystemExit passes: the one of stop()
\* (line 512) and the exits of `with self.output_lock`.  So the interrupted
\* frames are kept as one frame that says whether a stop() was interrupted
\* inside its try statement, and their locals are dropped.
Interrupted(stk) ==
    IF \E i \in 1 .. Len(stk) : stk[i] \in StopTry \cup {"in stop"}
    THEN "in stop" ELSE "in main"

\* lines 6-8: SIGINT or SIGTERM is delivered to the main thread, between any
\* two of its steps; the handler calls ui_manager.stop()
SignalHandler ==
    /\ stack[1] \in ScriptLabels
    /\ signals < MaxSignals
    /\ signals' = signals + 1
    /\ stack' = << Interrupted(stack), "H9", "L503" >>
    /\ loc' = InitLoc
    /\ ret' = "none"
    /\ UNCHANGED <<ui_process, process_output, output_lock, ui_path_exists, env_file,
                   launched, alive, termDelivered, killed, tpc, tline, tpipe, unwritten,
                   arrived, calls, platform>>

\* line 9: sys.exit(0).  SystemExit passes through every frame below: the
\* finally clause of an interrupted stop() and the exit of an interrupted
\* `with self.output_lock` run, then the exit hook
SignalExit ==
    /\ At("H9")
    /\ ui_process' = IF stack[1] = "in stop" THEN None ELSE ui_process
    /\ output_lock' = IF output_lock = Foreground THEN NoThread ELSE output_lock
    /\ stack' = <<"L120">>
    /\ ret' = "exit 0"
    /\ UNCHANGED <<loc, process_output, ui_path_exists, env_file, launched, alive,
                   termDelivered, killed, tpc, tline, tpipe, unwritten, arrived,
                   calls, signals, platform>>

\* ------------------------------------- the instance used from a notebook

\* a faulty start() that empties the buffer on entry
CallStartFresh ==
    /\ At("idle")
    /\ calls < MaxCalls
    /\ calls' = calls + 1
    /\ stack' = Call("idle", "L133")
    /\ loc' = InitLoc
    /\ ret' = "none"
    /\ process_output' = << >>
    /\ UNCHANGED <<ui_process, output_lock, ui_path_exists, env_file, launched,
                   alive, termDelivered, killed, tpc, tline, tpipe, unwritten, arrived,
                   signals, platform>>

\* ui_manager.start()
CallStart ==
    /\ At("idle")
    /\ calls < MaxCalls
    /\ calls' = calls + 1
    /\ stack' = Call("idle", "L133")
    /\ loc' = InitLoc
    /\ ret' = "none"
    /\ UNCHANGED <<ui_process, process_output, output_lock, ui_path_exists, env_file, launched,
                   alive, termDelivered, killed, tpc, tline, tpipe, unwritten, arrived,
                   signals, platform>>

\* ui_manager.stop()
CallStop ==
    /\ At("idle")
    /\ calls < MaxCalls
    /\ calls' = calls + 1
    /\ stack' = Call("idle", "L503")
    /\ UNCHANGED <<loc, ret, ui_process, process_output, output_lock, ui_path_exists, env_file,
                   launched, alive, termDelivered, killed, tpc, tline, tpipe, unwritten,
                   arrived, signals, platform>>

\* ui_manager.get_status()
CallGetStatus ==
    /\ At("idle")
    /\ calls < MaxCalls
    /\ calls' = calls + 1
    /\ ret' = GetStatus
    /\ UNCHANGED <<stack, loc, ui_process, process_output, output_lock, ui_path_exists, env_file,
                   launched, alive, termDelivered, killed, tpc, tline, tpipe, unwritten,
                   arrived, signals, platform>>

\* the interpreter exits: the exit hook registered at line 44 runs
EndProgram ==
    /\ At("idle")
    /\ stack' = <<"L120">>
    /\ UNCHANGED <<loc, ret, Shared>>

\* ------------------------------------------------------ the child process

\* a child exits on its own
ChildExit ==
    /\ ~Exited
    /\ \E c \in alive : alive' = alive \ {c}
    /\ UNCHANGED <<stack, loc, ret, ui_process, process_output, output_lock,
                   ui_path_exists, env_file, launched, termDelivered, killed, tpc, tline,
                   tpipe, unwritten, arrived, calls, signals, platform>>

\* ------------------------------------ capture_stdout / capture_stderr, 342-369

\* lines 344-347 / 359-362: readline returns the next line the child wrote.
\* Once the child has exited readline returns '' and the thread ends: nothing
\* observes that, so a thread at line 344 whose child has exited is a thread
\* that has ended (CaptureEnded) and takes no step
CaptureRead(t) ==
    /\ tpc[t] = "L344"
    /\ tpipe[t] \in alive
    /\ unwritten > 0
    /\ \E kind \in LineKinds :
          tline' = [tline EXCEPT ![t] = << [stream |-> StreamOf(t),
                                           child |-> tpipe[t],
                                           n |-> unwritten,
                                           kind |-> kind] >>]
    /\ unwritten' = unwritten - 1
    /\ tpc' = [tpc EXCEPT ![t] = "L351"]
    /\ UNCHANGED <<tpipe, process_output, output_lock, arrived>>

CaptureEnded(t) == tpc[t] = "L344" /\ tpipe[t] \notin alive

\* a faulty append that puts the line in front of the buffer
AppendFirst(buf, line) == << line >> \o buf

\* self.process_output.append(line)
AppendLine(buf, line) == Append(buf, line)

\* a faulty trim that drops the newest line instead of the oldest
TrimNewest(buf) ==
    IF Len(buf) > MaxOutputLines THEN SubSeq(buf, 1, Len(buf) - 1) ELSE buf

\* lines 354-355 / 368-369: self.process_output.pop(0) above 100 lines
TrimOutput(buf) == IF Len(buf) > MaxOutputLines THEN Tail(buf) ELSE buf

\* lines 351-352 / 365-366: enter the lock and append the line
CaptureAppend(t) ==
    /\ tpc[t] = "L351"
    /\ output_lock = NoThread
    /\ output_lock' = t
    /\ process_output' = AppendLine(process_output, tline[t][1])
    /\ arrived' = Append(arrived, tline[t][1])
    /\ tline' = [tline EXCEPT ![t] = << >>]
    /\ tpc' = [tpc EXCEPT ![t] = "L354"]
    /\ UNCHANGED <<tpipe, unwritten>>

\* lines 354-355 / 368-369: drop the oldest line above 100, leave the lock
CaptureTrim(t) ==
    /\ tpc[t] = "L354"
    /\ process_output' = TrimOutput(process_output)
    /\ output_lock' = NoThread
    /\ tpc' = [tpc EXCEPT ![t] = "L344"]
    /\ UNCHANGED <<tpipe, tline, unwritten, arrived>>

Capture ==
    /\ ~Exited
    /\ \E t \in Threads :
        \/ CaptureRead(t)
        \/ CaptureAppend(t)
        \/ CaptureTrim(t)
    /\ UNCHANGED <<stack, loc, ret, ui_process, ui_path_exists, env_file, launched, alive,
                   termDelivered, killed, calls, signals, platform>>

\* ---------------------------------------------------------- specification

\* the steps of start(), lines 127-499
StartStep ==
    \/ CheckPrerequisites
    \/ CheckNatPort
    \/ CheckUiPort
    \/ AskKill
    \/ KillPortOwner
    \/ CloneRepo
    \/ InstallInit
    \/ InstallLoopHead
    \/ RunInstall
    \/ ConfigureEnv
    \/ PopenSpawn
    \/ PopenAssign
    \/ StartThreads
    \/ SettleCheck
    \/ CallWaitForPort
    \/ WaitForPort
    \/ GatewayPhase
    \/ CompileWait
    \/ HttpProbe
    \/ FinalCheck
    \/ Except
    \/ ReturnFalse

\* the steps of stop(), lines 501-513
StopStep ==
    \/ StopCheck
    \/ StopTerminate
    \/ StopWait
    \/ StopKill
    \/ StopFinally

\* a run of web_ui.py
Next ==
    \/ MainStart
    \/ StartStep
    \/ StopStep
    \/ MainBranch
    \/ MainMonitor
    \/ MainReport
    \/ MainExit
    \/ SignalHandler
    \/ SignalExit
    \/ CleanupCheck
    \/ ChildExit
    \/ Capture

Spec == Init /\ [][Next]_vars

\* a notebook session
NextLib ==
    \/ CallStart
    \/ CallStop
    \/ CallGetStatus
    \/ EndProgram
    \/ StartStep
    \/ StopStep
    \/ CleanupCheck
    \/ CleanupTerminate
    \/ CleanupWait
    \/ ChildExit
    \/ Capture

SpecLib == InitLib /\ [][NextLib]_vars

\* the line the child wrote when `left` more lines were still to come
OldLine(left) ==
    [stream |-> "STDOUT", child |-> 1, n |-> left, kind |-> "plain"]

\* the buffer after the child has written k lines to its stdout
Filled(k) == [i \in 1 .. k |-> OldLine(MaxCaptureLines + k - i + 1)]

\* web_ui.py in its monitor loop (line 22) after start() returned True: the
\* child runs, its two capture threads wait for the next line, and the buffer
\* holds the k lines captured so far, one short of the limit of line 354 or at
\* it.  sys.platform is read before the launch only (lines 79, 155, 206, 310)
InitCapture ==
    /\ stack = << "M22" >>
    /\ loc = InitLoc
    /\ ret = "True"
    /\ ui_process = 1
    /\ \E k \in (MaxOutputLines - 1) .. MaxOutputLines :
          /\ process_output = Filled(k)
          /\ arrived = Filled(k)
    /\ output_lock = NoThread
    /\ ui_path_exists = TRUE
    /\ env_file = RewriteEnv(<< >>)
    /\ launched = 1
    /\ alive = {1}
    /\ termDelivered = [c \in Children |-> 0]
    /\ killed = {}
    /\ tpc = [t \in Threads |-> IF t \in {StdoutThread(1), StderrThread(1)}
                                THEN "L344" ELSE "none"]
    /\ tline = [t \in Threads |-> << >>]
    /\ tpipe = [t \in Threads |-> IF t \in {StdoutThread(1), StderrThread(1)}
                                  THEN 1 ELSE None]
    /\ unwritten = MaxCaptureLines
    /\ calls = 0
    /\ signals = 0
    /\ platform = "unix"

\* the monitor loop, the child and its capture threads, up to the exit hook
NextCapture ==
    \/ MainMonitor
    \/ MainReport
    \/ CleanupCheck
    \/ ChildExit
    \/ Capture

SpecCapture == InitCapture /\ [][NextCapture]_vars

\* the i-th of the lines the child wrote during the settle time, the first e
\* of them with an error keyword
SettleLine(i, k, e) ==
    [stream |-> "STDOUT", child |-> 1, n |-> MaxLines + k - i + 1,
     kind |-> IF i <= e THEN "error" ELSE "plain"]

\* start() called by web_ui.py at the end of the settle time (line 381): the
\* child was launched on Unix after a successful install, and its capture
\* threads have stored the k lines it wrote, around the 50 of line 386, of
\* which e, around the 15 of line 393, hold an error keyword
InitSettle ==
    /\ stack = << "M17", "L384" >>
    /\ loc = [InitLoc EXCEPT !.install_ok = TRUE, !.pending = 1,
                             !.spawned = << "npm run dev" >>]
    /\ ret = "none"
    /\ ui_process = 1
    /\ \E k \in 50 .. 51, e \in 15 .. 16 :
          /\ process_output = [i \in 1 .. k |-> SettleLine(i, k, e)]
          /\ arrived = [i \in 1 .. k |-> SettleLine(i, k, e)]
    /\ output_lock = NoThread
    /\ ui_path_exists = TRUE
    /\ env_file = RewriteEnv(<< >>)
    /\ launched = 1
    /\ alive = {1}
    /\ termDelivered = [c \in Children |-> 0]
    /\ killed = {}
    /\ tpc = [t \in Threads |-> IF t \in {StdoutThread(1), StderrThread(1)}
                                THEN "L344" ELSE "none"]
    /\ tline = [t \in Threads |-> << >>]
    /\ tpipe = [t \in Threads |-> IF t \in {StdoutThread(1), StderrThread(1)}
                                  THEN 1 ELSE None]
    /\ unwritten = MaxLines
    /\ calls = 0
    /\ signals = 0
    /\ platform = "unix"

\* the rest of the run of web_ui.py from the settle check on
NextSettle ==
    \/ SettleCheck
    \/ CallWaitForPort
    \/ WaitForPort
    \/ GatewayPhase
    \/ CompileWait
    \/ HttpProbe
    \/ FinalCheck
    \/ Except
    \/ ReturnFalse
    \/ StopStep
    \/ MainBranch
    \/ MainMonitor
    \/ MainReport
    \/ MainExit
    \/ SignalHandler
    \/ SignalExit
    \/ CleanupCheck
    \/ ChildExit
    \/ Capture

SpecSettle == InitSettle /\ [][NextSettle]_vars

\* a notebook between two calls on the instance: either nothing was started
\* yet, or start() has returned True and the child runs, its capture threads
\* waiting for its next line
InitStatus ==
    /\ stack = << "idle" >>
    /\ loc = InitLoc
    /\ ui_path_exists = TRUE
    /\ process_output = << >>
    /\ arrived = << >>
    /\ output_lock = NoThread
    /\ termDelivered = [c \in Children |-> 0]
    /\ killed = {}
    /\ tline = [t \in Threads |-> << >>]
    /\ unwritten = MaxLines
    /\ signals = 0
    /\ platform \in {"unix", "win32"}
    /\ \/ /\ ret = "none"
          /\ calls = 0
          /\ ui_process = None
          /\ env_file = << >>
          /\ launched = 0
          /\ alive = {}
          /\ tpc = [t \in Threads |-> "none"]
          /\ tpipe = [t \in Threads |-> None]
       \/ /\ ret = "True"
          /\ calls = 1
          /\ ui_process = 1
          /\ env_file = RewriteEnv(<< >>)
          /\ launched = 1
          /\ alive = {1}
          /\ tpc = [t \in Threads |-> IF t \in {StdoutThread(1), StderrThread(1)}
                                      THEN "L344" ELSE "none"]
          /\ tpipe = [t \in Threads |-> IF t \in {StdoutThread(1), StderrThread(1)}
                                        THEN 1 ELSE None]

\* the calls of stop() and get_status() the notebook then makes, the child and
\* its capture threads, and the end of the session
NextStatus ==
    \/ CallStop
    \/ CallGetStatus
    \/ EndProgram
    \/ StopStep
    \/ CleanupCheck
    \/ CleanupTerminate
    \/ CleanupWait
    \/ ChildExit
    \/ Capture

SpecStatus == InitStatus /\ [][NextStatus]_vars

\* the same session with the foreground thread running whenever it can:
\* terminate() and kill() do not block and wait() is bounded by its timeout of
\* 5 s.  Nothing is assumed of the child and of the capture threads, which may
\* stay blocked in readline() for ever
SpecStatusFair == SpecStatus /\ WF_vars(StopStep)

\* ------------------------------------------------ a session after a start()

\* a notebook session with one call left to make, after a start() that
\* returned True and a stop(): the child has exited on the terminate request,
\* the handle is cleared, the capture threads of the child are at the end of
\* their streams, and the buffer holds a line captured from it
InitRestart ==
    /\ stack = << "idle" >>
    /\ loc = InitLoc
    /\ ret = "True"
    /\ ui_process = None
    /\ process_output = << OldLine(MaxLines + 1) >>
    /\ arrived = << OldLine(MaxLines + 1) >>
    /\ output_lock = NoThread
    /\ ui_path_exists = TRUE
    /\ env_file = RewriteEnv(<< >>)
    /\ launched = 1
    /\ alive = {}
    /\ termDelivered = [c \in Children |-> IF c = 1 THEN 1 ELSE 0]
    /\ killed = {}
    /\ tpc = [t \in Threads |-> IF t \in {StdoutThread(1), StderrThread(1)}
                                THEN "L344" ELSE "none"]
    /\ tline = [t \in Threads |-> << >>]
    /\ tpipe = [t \in Threads |-> IF t \in {StdoutThread(1), StderrThread(1)}
                                  THEN 1 ELSE None]
    /\ unwritten = MaxLines
    /\ calls = MaxCalls - 1
    /\ signals = 0
    /\ platform \in {"unix", "win32"}

\* the calls of start() and stop() the notebook then makes, the children and
\* their capture threads
NextRestart ==
    \/ CallStart
    \/ CallStop
    \/ StartStep
    \/ StopStep
    \/ ChildExit
    \/ Capture

SpecRestart == InitRestart /\ [][NextRestart]_vars

\* ------------------------------------------------ the .env step on its own

\* lines an existing .env file is made of: blank, comment, assignments with
\* and without padding, the two required keys, a line without '=', a value
\* holding an '=', an empty value, an empty key
EnvLines ==
    { << >>,
      << "#", " ", "K", "=", "1" >>,
      << "K", "=", "1" >>,
      << " ", "K", " ", "=", " ", "2", " " >>,
      << "PORT", "=", "3001" >>,
      << "NAT_BACKEND_URL", "=", "http://localhost:9000" >>,
      << "K" >>,
      << "J", "=", "1", "=", "2" >>,
      << "PORT", "=" >>,
      << "=", "1" >> }

EnvFiles == UNION { [1 .. n -> EnvLines] : n \in 0 .. MaxEnvLines }

\* start() of web_ui.py at line 270, the directory there and the first install
\* run successful, whatever .env file the directory holds
InitEnv ==
    /\ stack = << "M17", "L270" >>
    /\ loc = [InitLoc EXCEPT !.spawned = << "git --version", "node --version",
                                            "npm --version", "npm install" >>,
                             !.it = 1,
                             !.install_ok = TRUE,
                             !.last_cmd = InstallCommand(InitLoc)]
    /\ ret = "none"
    /\ ui_process = None
    /\ process_output = << >>
    /\ arrived = << >>
    /\ output_lock = NoThread
    /\ ui_path_exists = TRUE
    /\ env_file \in EnvFiles
    /\ launched = 0
    /\ alive = {}
    /\ termDelivered = [c \in Children |-> 0]
    /\ killed = {}
    /\ tpc = [t \in Threads |-> "none"]
    /\ tline = [t \in Threads |-> << >>]
    /\ tpipe = [t \in Threads |-> None]
    /\ unwritten = MaxLines
    /\ calls = 0
    /\ signals = 0
    /\ platform \in {"unix", "win32"}

NextEnv == ConfigureEnv

SpecEnv == InitEnv /\ [][NextEnv]_vars

\* ------------------------------------------------------------ properties

\* start() is on its way to `return False`: a RuntimeError or another
\* exception is being handled (lines 492-499)
InFailure == \E i \in 1 .. Len(stack) : stack[i] \in {"L492", "L495"}

\* the install loop of lines 200-267 was left without a successful install
InstallGaveUp ==
    /\ ~loc.install_ok
    /\ \/ At("L270")
       \/ loc.error_msg \in {"npm install timed out after retries",
                             "failed to install dependencies"}

\* C1: a lockfile-mismatch or peer-dependency failure that flips its sticky
\* flag consumes none of the max_retries attempts: whenever the install command
\* is about to run, the attempts used up so far are exactly the timeouts and
\* unrecognized failures seen so far, and the loop gives up only after
\* max_retries of those.
C1_FlagFlipIsFree ==
    /\ At("L207") => loc.attempt = loc.charged
    /\ InstallGaveUp => loc.charged = max_retries

\* C2: when the install loop ends with no successful install, start() aborts:
\* neither the .env step (line 270) nor the launch of the child (lines 319/331)
\* is reached without a successful install.
C2_NoLaunchWithoutInstall ==
    (At("L270") \/ At("L319") \/ loc.pending # None) => loc.install_ok

\* ---- C3

\* C3: after any sequence of start() and stop() calls on one instance, at most
\* one child process launched by it is alive.
C3_AtMostOneChildAlive == Cardinality(alive) <= 1

\* ---- C4

\* the statements of the foreground that read or write self.process_output
BufferAccess ==
    {"L386", "L391", "L403", "L410", "L415", "L437", "L471", "L483", "M27"}

\* the statements of the foreground that read or write self.ui_process
HandleAccess ==
    {"L331", "L371", "L384", "L401", "L408", "L446", "L481", "L503", "L506",
     "L507", "L510", "L512", "L120", "L121", "L123", "M22"}

\* C4: every read and every write of process_output and of ui_process, by a
\* capture thread or by the foreground, happens while output_lock is held by
\* the one that makes it.
C4_AccessUnderLock ==
    /\ Top \in BufferAccess \cup HandleAccess => output_lock = Foreground
    /\ \A t \in Threads : tpc[t] = "L354" => output_lock = t

\* ---- C5

\* C5: in every shutdown sequence, for every interleaving of signal deliveries
\* with the running stop sequence, no child is sent the graceful terminate
\* request more than once.
C5_TerminateOnce == \A c \in Children : termDelivered[c] <= 1

\* ---- C6

\* C6: whenever output_lock is not held the buffer has at most MaxOutputLines
\* lines, and they are the most recent lines appended, in arrival order.
C6_BoundedFifo ==
    output_lock = NoThread =>
        /\ Len(process_output) <= MaxOutputLines
        /\ process_output = LastN(arrived, MaxOutputLines)

\* more than MaxOutputLines lines have been appended, the oldest are evicted
C6_Witness ==
    /\ output_lock = NoThread
    /\ Len(arrived) > MaxOutputLines + 1
    /\ Len(process_output) = MaxOutputLines
    /\ process_output[1] # arrived[1]

\* ---- C7

\* the statements of start() after a gateway timeout, and of the stop() the
\* handler of line 492 calls: all of them lead to `return False`
GatewayFailurePath ==
    {"L408", "L409", "L410", "L415", "L420", "L492", "L503", "L506", "L507",
     "L510", "L512", "L495"}

\* C7: when the gateway port did not respond within its timeout, start() goes
\* on to return False only, through stop(); when it returns no child is tracked
\* and the child it launched is not running.
C7_GatewayTimeoutFails ==
    loc.gateway_ready = "False" =>
        /\ Top \in GatewayFailurePath
        /\ loc.pending # None
        /\ At("L495") => ui_process = None /\ loc.pending \notin alive

\* start() is about to return False after a gateway timeout with the child
\* alive at the timeout (line 420), which stop() then terminated
C7_Witness ==
    /\ At("L495")
    /\ loc.gateway_ready = "False"
    /\ loc.error_msg = "Gateway did not start within 30 seconds"
    /\ termDelivered[loc.pending] = 1

\* ---- C8

NextjsWarning == "Next.js dev server may not be ready yet"

\* C8 as stated: when the Next.js port did not respond within its timeout and
\* the gateway port had responded, start() goes on to return True, with the
\* warning printed.
C8_SecondaryTimeoutSucceeds ==
    (loc.gateway_ready = "True" /\ loc.nextjs_ready = "False") =>
        /\ NextjsWarning \in loc.warned
        /\ Top \in {"L481", "L490"}

\* C8, amended: when the Next.js port did not respond within its timeout, the
\* gateway port had responded and the warning is printed; start() goes on to
\* return True unless the final health check of line 481 finds that the child
\* has exited, the only failure then possible.
C8_SecondaryTimeoutNotFatal ==
    loc.nextjs_ready = "False" =>
        /\ loc.gateway_ready = "True"
        /\ NextjsWarning \in loc.warned
        /\ \/ Top \in {"L481", "L490"}
           \/ /\ Top \in {"L482", "L483", "L492", "L503", "L506", "L507", "L510",
                          "L512", "L495"}
              /\ loc.pending \notin alive
              /\ Top \notin {"L482", "L483"} =>
                    loc.error_msg = "UI server process has crashed"

\* start() is about to return True after a timeout of the Next.js port
C8_Witness ==
    /\ At("L490")
    /\ loc.gateway_ready = "True"
    /\ loc.nextjs_ready = "False"
    /\ ui_process \in alive

\* ---- C9

\* C9: when the UI port is busy at line 153 and is not freed, start() aborts
\* before the clone, the install command or the child is spawned.
C9_BusyPortAborts ==
    (loc.port_busy /\ loc.response # "y") =>
        /\ Top \in {"L157", "L492", "L503", "L495"}
        /\ \A i \in 1 .. Len(loc.spawned) :
              loc.spawned[i] \notin {"git clone", "npm install", "npm run dev"}

\* ---- C10

VersionChecks == << "git --version", "node --version", "npm --version" >>

\* the version checks made when the tool named in the error is the first to fail
ChecksUpTo(msg) ==
    SubSeq(VersionChecks, 1,
           IF msg = "git is not installed" THEN 1
           ELSE IF msg = "Node.js is not installed" THEN 2 ELSE 3)

ToolMissing ==
    {"git is not installed", "Node.js is not installed", "npm is not installed"}

\* C10: when a required tool fails its version check, start() goes on to
\* return False only, and the subprocesses it has spawned are the version
\* checks up to and including the failing one: no clone, no install, no child.
C10_MissingToolAborts ==
    /\ loc.error_msg \in ToolMissing =>
          /\ Top \in {"L492", "L503", "L495"}
          /\ loc.spawned = ChecksUpTo(loc.error_msg)
          /\ loc.pending = None
          /\ launched = 0
    /\ Top \in {"L136", "L139", "L146"} => loc.error_msg = ""

\* start() is about to return False because node is missing
C10_Witness ==
    /\ At("L495")
    /\ loc.error_msg = "Node.js is not installed"
    /\ loc.spawned = << "git --version", "node --version" >>

\* ---- C11

\* what a call of stop() may change besides the position of the foreground
StopEffects == <<loc, ret, ui_process, process_output, output_lock, launched, alive,
                 termDelivered, killed>>

\* a step of the foreground other than the delivery of a signal
ForegroundStep == stack' # stack /\ signals' = signals

\* C11: stop() with no tracked process is a no-op: it returns at once, sends no
\* signal and changes no state; and when a call of stop() returns no handle is
\* tracked, so that a second call in succession is such a no-op.
C11_StopIdempotent ==
    [][ /\ (At("L503") /\ ui_process = None /\ ForegroundStep) =>
              (stack' = Return /\ UNCHANGED StopEffects)
        /\ (Top \in {"L503", "L512"} /\ stack' = Return) => ui_process' = None
      ]_vars

\* a second stop() begins after the stop() called by start() has terminated the
\* child and returned
C11_Witness ==
    /\ stack = << "in main", "H9", "L503" >>
    /\ ui_process = None
    /\ \E c \in Children : termDelivered[c] = 1 /\ c \notin alive

\* ---- C12

\* C12: stop() sends the terminate request before it waits, and the kill only
\* when the wait timed out with the child still running: a child that was
\* killed, or is about to be, was sent terminate before.
C12_TerminateBeforeKill ==
    /\ [](/\ \A c \in killed : termDelivered[c] >= 1
          /\ (Top \in {"L507", "L510"} /\ ui_process \in alive) =>
                termDelivered[ui_process] >= 1
          /\ At("L510") => termDelivered[ui_process] >= 1)
    /\ [][ /\ (At("L507") /\ stack' = Goto("L510")) => ui_process \in alive'
           /\ killed' # killed => Top \in {"L510", "L123"}
         ]_vars

\* stop() has killed a child after the wait timed out
C12_Witness ==
    /\ At("L512")
    /\ ui_process \in killed
    /\ termDelivered[ui_process] = 1

\* ---- C13

\* a frame of stop() is on the stack, running or interrupted by a signal
InStop == \E i \in 1 .. Len(stack) : stack[i] \in StopTry \cup {"L503", "in stop"}

\* C13: on every path out of stop(), the return after a graceful exit or after
\* the kill and the SystemExit of a signal handler that interrupted it, the
\* handle is cleared.
C13_HandleCleared == [][ (InStop /\ ~InStop') => ui_process' = None ]_vars

\* SystemExit is about to pass through a stop() that was interrupted
C13_Witness ==
    /\ At("H9")
    /\ stack[1] = "in stop"
    /\ ui_process = None
    /\ killed # {}

\* ---- C14

\* the exit of the child has been observed by the poll of the monitor loop
ExitObserved == Top \in {"M26", "M27"}

\* C14: the handle is None before start() launches a child, and after the exit
\* of the child has been observed by a poll.
C14_HandleAbsent ==
    /\ launched = 0 => ui_process = None
    /\ ExitObserved => ui_process = None

\* ---- C15

SettleMsg == "UI server process exited before gateway could start"

\* the statements start() runs from the RuntimeError to `return False`
FailurePath == {"L492", "L503", "L506", "L507", "L510", "L512", "L495"}

\* s[:k]
FirstN(s, k) == SubSeq(s, 1, k)

\* C15: when the first liveness check (line 384) finds that the child has
\* exited, start() takes the crash branch, never starts the gateway wait and
\* goes on to return False only; its message holds the last 50 lines of the
\* buffer as it was at line 386 and the last 15 lines with an error keyword of
\* the buffer as it was at line 391.
C15_SettleCrash ==
    /\ [](/\ (Top \in {"L385", "L386", "L391"} \/ loc.error_msg = SettleMsg) =>
                /\ loc.gateway_ready = "unset"
                /\ loc.wait_port = 0
                /\ loc.pending \notin alive
          /\ loc.error_msg = SettleMsg =>
                /\ Top \in FailurePath
                /\ \E k \in 0 .. Len(arrived) :
                      /\ loc.recent_output = LastN(FirstN(arrived, k), 50)
                      /\ \E j \in k .. Len(arrived) :
                            loc.error_lines = LastN(ErrorLines(FirstN(arrived, j)), 15))
    /\ [][ (At("L384") /\ ForegroundStep /\ ui_process \notin alive) =>
              stack' = Goto("L385") ]_vars

\* start() is about to return False after a crash in the settle time, with a
\* message cut to 50 lines of output and 15 error lines
C15_Witness ==
    /\ At("L495")
    /\ loc.error_msg = SettleMsg
    /\ Len(arrived) > 50
    /\ Len(loc.recent_output) = 50
    /\ Len(ErrorLines(arrived)) > 15
    /\ Len(loc.error_lines) = 15

\* ---- C16

\* the install loop of one start() call goes on
InInstallLoop == Top \in {"L200", "L207"}

\* C16: within the install loop a flag that is set stays set; every install
\* invocation uses 'install' iff the lockfile flag is set, 'ci' otherwise, and
\* carries '--legacy-peer-deps' iff the peer-dependency flag is set; both flags
\* are unset when start() is entered and when the loop begins.
C16_StickyFlags ==
    /\ []((Top \in {"L133", "L195"} \/ (At("L200") /\ loc.it = 0)) =>
              (~loc.use_npm_install /\ ~loc.use_legacy_peer_deps))
    /\ [][ /\ (InInstallLoop /\ InInstallLoop' /\ loc.use_npm_install) =>
                 loc'.use_npm_install
           /\ (InInstallLoop /\ InInstallLoop' /\ loc.use_legacy_peer_deps) =>
                 loc'.use_legacy_peer_deps
           /\ (At("L207") /\ ForegroundStep) =>
                 loc'.last_cmd =
                    << "npm",
                       IF loc.use_npm_install THEN "install" ELSE "ci",
                       IF loc.use_legacy_peer_deps THEN "--legacy-peer-deps" ELSE "" >>
         ]_vars

\* the second attempt ran 'npm install' after a lockfile mismatch and succeeded
C16_Witness ==
    /\ At("L270")
    /\ loc.install_ok
    /\ loc.attempt = 1
    /\ loc.use_npm_install
    /\ loc.last_cmd = << "npm", "install", "" >>

\* ---- C17

\* a call of get_status() by the notebook
StatusCall == At("idle") /\ calls' = calls + 1 /\ stack' = stack

\* C17: get_status() returns 'Not started' iff no handle is tracked, 'Running'
\* iff a handle is tracked and the child has not exited, 'Stopped' iff a handle
\* is tracked and the child has exited, and nothing else.
C17_StatusMatchesState ==
    [][ StatusCall =>
           /\ ret' \in {"Not started", "Running", "Stopped"}
           /\ ret' = "Not started" <=> ui_process = None
           /\ ret' = "Running" <=> (ui_process # None /\ ui_process \in alive)
           /\ ret' = "Stopped" <=> (ui_process # None /\ ui_process \notin alive)
      ]_vars

\* get_status() has reported the exit of the child that start() launched
C17_Witness ==
    /\ At("idle")
    /\ ret = "Stopped"
    /\ ui_process # None
    /\ ui_process \notin alive

\* ---- C18

\* C18: Stopped and FailedToStart are terminal: once a stop() (called by the
\* operator or by a failing start()) has terminated the child of the instance,
\* no later operation on the instance launches a child.
C18_TerminalStates ==
    [][ launched' # launched =>
           \A c \in 1 .. launched : termDelivered[c] = 0 /\ c \notin killed
      ]_vars

\* ---- C19

\* C19: when a signal is handled while a child launched by start() exists, the
\* handler's stop() has ended the child before sys.exit(0), and no child is
\* left alive when the program has exited.
C19_NoChildSurvivesSignal == (At("H9") \/ Exited) => alive = {}

\* ---- C20

\* start() has returned False to web_ui.py, which has yet to call sys.exit
ReturnedFalse == Len(stack) = 1 /\ Top \in {"M17", "M41"} /\ ret = "False"

\* the path of web_ui.py from the return of start() to sys.exit(1)
ToExitOne == Top' = "M41" \/ (ret' = "exit 1" /\ stack' = << "L120" >>)

\* the program has exited with status 1
ExitedNonZero == Exited /\ ret = "exit 1"

\* C20 as stated: when start() returns failure stop() has run and no child is
\* tracked, and from there web_ui.py only goes on to exit with status 1.
C20_FailureExitsNonZero ==
    /\ []((At("L495") \/ ReturnedFalse) => ui_process = None)
    /\ [](ret = "False" => ReturnedFalse)
    /\ [][ (ReturnedFalse /\ stack' # stack) => ToExitOne ]_vars

\* C20, amended: when start() returns failure stop() has run and no child is
\* tracked, and web_ui.py goes on to exit with status 1 unless a signal is
\* handled before sys.exit(1) is called: the handler then exits with status 0.
C20_FailureCleansUp ==
    /\ []((At("L495") \/ ReturnedFalse) => ui_process = None)
    /\ [](ret = "False" => ReturnedFalse)
    /\ [](ret = "exit 1" => (Top \in {"L120", "exited"} /\ signals = 0))
    /\ [][ /\ (ReturnedFalse /\ ForegroundStep) => ToExitOne
           /\ (ReturnedFalse /\ signals' # signals) => Top' = "L503"
           /\ At("H9") /\ ForegroundStep => ret' = "exit 0"
         ]_vars

\* web_ui.py has exited with status 1 after a start() that launched the child
\* and failed
C20_Witness ==
    /\ ExitedNonZero
    /\ launched = 1
    /\ ui_process = None
    /\ alive = {}

\* ---- C21

NotRespondingWarning == "Next.js not responding"

\* C21: a response of the HTTP probe with status 200 or 404 counts as
\* responding: after it the probe is not tried again and the 'not responding'
\* warning is not printed.
C21_Probe200Or404Responds ==
    loc.http \in {"200", "404"} =>
        /\ Top \notin {"L459", "L470", "L471"}
        /\ NotRespondingWarning \notin loc.warned

\* ---- C22

CompilingWarning == "Next.js may still be compiling"

SecondaryLabels == {"L434", "L436", "L437", "L446", "L449", "L459", "L470", "L471"}

\* C22: once the Next.js port has responded, a compilation wait that saw no
\* success marker and an HTTP probe whose 5 tries all failed are warnings only:
\* each leaves its warning and start() goes on to the final health check and
\* returns True; the call fails only when a poll finds that the child has
\* exited.
C22_SecondaryFailuresWarnOnly ==
    loc.nextjs_ready = "True" =>
        /\ \/ Top \in SecondaryLabels \cup {"L481", "L490"}
           \/ /\ Top \in {"L482", "L483"} \cup FailurePath
              /\ loc.pending \notin alive
              /\ Top \in FailurePath => loc.error_msg = "UI server process has crashed"
        /\ (Top \in {"L459", "L470", "L471", "L481", "L490"} /\ ~loc.compiled) =>
              CompilingWarning \in loc.warned
        /\ (Top \in {"L470", "L471", "L481", "L490"}
              /\ loc.http \in {"404", "no connection"}) =>
              NotRespondingWarning \in loc.warned

\* start() is about to return True after both checks failed, the child alive
C22_Witness ==
    /\ At("L490")
    /\ loc.nextjs_ready = "True"
    /\ ~loc.compiled
    /\ CompilingWarning \in loc.warned
    /\ NotRespondingWarning \in loc.warned
    /\ ui_process \in alive

\* ---- C23

\* the line at position i of the buffer was written by the child before the
\* one at position j (`unwritten` counts down as the child writes)
WrittenBefore(i, j) == process_output[i].n > process_output[j].n

\* the lines of the buffer read from one stream of one child, in buffer order
StreamLines(stream, child) ==
    SelectSeq(process_output, LAMBDA l : l.stream = stream /\ l.child = child)

\* each line of the sequence was written before the one after it, hence before
\* all the later ones
InWriteOrder(lines) ==
    \A i \in 1 .. Len(lines) - 1 : lines[i].n > lines[i + 1].n

\* C23: whatever the interleaving of the two capture threads, two lines of the
\* same stream of a child that are both in the buffer are there in the order
\* the child wrote them.
C23_StreamOrderKept ==
    \A stream \in {"STDOUT", "STDERR"}, child \in 1 .. launched :
        InWriteOrder(StreamLines(stream, child))

\* the buffer ends with two stderr lines around a stdout line that the child
\* wrote before the first of them: the streams are interleaved out of order
C23_Witness ==
    LET k == Len(process_output)
    IN  /\ k >= 3
        /\ process_output[k - 2].stream = "STDERR"
        /\ process_output[k - 1].stream = "STDOUT"
        /\ process_output[k].stream = "STDERR"
        /\ process_output[k - 1].n <= MaxCaptureLines
        /\ WrittenBefore(k - 1, k - 2)

\* ---- C24

\* the step of lines 270-298 has run to its end
EnvStep == At("L270") /\ stack' = Goto("L319")

\* the key=value pairs of the non-comment lines of a file
PairsOf(file) ==
    { [key |-> KeyOf(file[i]), value |-> ValueOf(file[i])] :
        i \in {j \in 1 .. Len(file) : IsAssignment(file[j])} }

KeysOf(file) == { p.key : p \in PairsOf(file) }

\* C24 as stated: the step keeps every key=value pair of the file other than
\* those of the two required keys, sets NAT_BACKEND_URL to
\* http://localhost:8000, keeps the value of PORT when the file has one and
\* sets it to 3000 when not, and applied again leaves the file as it is.
C24_EnvPairsKept ==
    [][EnvStep =>
        /\ \A p \in PairsOf(env_file) :
              p.key \notin {NatBackendUrlKey, PortKey} => p \in PairsOf(env_file')
        /\ \A p \in PairsOf(env_file') :
              p.key = NatBackendUrlKey => p.value = nat_backend_url
        /\ NatBackendUrlKey \in KeysOf(env_file')
        /\ IF PortKey \in KeysOf(env_file)
           THEN \A p \in PairsOf(env_file) : p.key = PortKey => p \in PairsOf(env_file')
           ELSE [key |-> PortKey, value |-> UiPortStr] \in PairsOf(env_file')
        /\ RewriteEnv(env_file') = env_file'
    ]_vars

\* the value the last assignment of a key gives it in a file
LastValue(file, key) ==
    LET at == {i \in 1 .. Len(file) : IsAssignment(file[i]) /\ KeyOf(file[i]) = key}
    IN  ValueOf(file[CHOOSE i \in at : \A j \in at : j <= i])

\* C24, amended: the step leaves one line key=value for each key of the file
\* and of the two required keys and no other line; a key other than the two
\* has the value of its last assignment in the file, NAT_BACKEND_URL has
\* http://localhost:8000, PORT has the value of its last assignment when the
\* file has one and 3000 when not; applied again it leaves the file as it is.
C24_EnvKeysKept ==
    [][EnvStep =>
        /\ \A i \in 1 .. Len(env_file') :
              /\ IsAssignment(env_file'[i])
              /\ \A j \in 1 .. Len(env_file') :
                    KeyOf(env_file'[i]) = KeyOf(env_file'[j]) => i = j
        /\ KeysOf(env_file') = KeysOf(env_file) \cup {NatBackendUrlKey, PortKey}
        /\ \A p \in PairsOf(env_file') :
              p.value = IF p.key = NatBackendUrlKey THEN nat_backend_url
                        ELSE IF p.key \in KeysOf(env_file)
                        THEN LastValue(env_file, p.key)
                        ELSE UiPortStr
        /\ RewriteEnv(env_file') = env_file'
    ]_vars

\* the step has run on a file that gave K two values and PORT one: K has the
\* later value, PORT the one of the file
C24_Witness ==
    /\ At("L319")
    /\ env_file = << << "K", "=", "2" >>,
                     << "PORT", "=", "3001" >>,
                     << "NAT_BACKEND_URL", "=", "http://localhost:8000" >> >>

\* ---- C25

\* the readiness check a statement of start() belongs to: 1 the settle check,
\* 2 the gateway port, 3 the Next.js port, 4 the compilation wait, 5 the HTTP
\* probe, 6 the final health check; 0 for the statements before and the
\* failure path
ReadinessRank(label, l) ==
    IF label \in {"L384", "L385", "L386", "L391"} THEN 1
    ELSE IF label \in {"L397", "L401", "L402", "L403", "L408", "L409", "L410",
                       "L415", "L420"} THEN 2
    ELSE IF label = "L112" THEN (IF l.wait_port = 3000 THEN 2 ELSE 3)
    ELSE IF label = "L424" THEN 3
    ELSE IF label \in {"L434", "L436", "L437", "L446", "L449"} THEN 4
    ELSE IF label \in {"L459", "L470", "L471"} THEN 5
    ELSE IF label \in {"L481", "L482", "L483", "L490"} THEN 6
    ELSE 0

\* C25: the readiness checks run in a fixed order, none skipped: settle check,
\* gateway port 3000, Next.js port 3099, then the compilation wait and the HTTP
\* probe only when port 3099 responded, else the final check at once; the
\* Next.js port is waited for only after port 3000 responded and the poll of
\* line 401 found the child alive.
C25_ReadinessOrder ==
    [][LET from == ReadinessRank(Top, loc)
           to == ReadinessRank(Top', loc')
       IN  (Len(stack') = Len(stack) /\ Top' # Top /\ to > 0) =>
              /\ \/ to = from
                 \/ to = from + 1
                 \/ from = 3 /\ to = 6 /\ loc'.nextjs_ready = "False"
              /\ (from = 0 /\ to = 1) => ui_process # None
              /\ (from = 1 /\ to = 2) => ui_process \in alive
              /\ (from = 2 /\ to = 3) =>
                    loc.gateway_ready = "True" /\ ui_process \in alive
              /\ (from = 3 /\ to = 4) => loc'.nextjs_ready = "True"
    ]_vars

\* all the checks have been gone through, up to the HTTP probe
C25_Witness ==
    /\ At("L459")
    /\ loc.gateway_ready = "True"
    /\ loc.nextjs_ready = "True"
    /\ loc.compiled
    /\ ui_process \in alive

\* ---- C26

\* a capture thread of child c that has not reached the end of its stream
Capturing(c) ==
    \E t \in Threads : tpipe[t] = c /\ tpc[t] \in {"L344", "L351", "L354"}

\* C26: stop() always returns, whatever the capture threads do: it does not
\* wait for them to reach the end of their stream, to get a line or to get
\* the buffer lock.
C26_StopReturns == InStop ~> ~InStop

\* stop() has returned, the child gone and the handle cleared, while a capture
\* thread of that child has not seen the end of its stream
C26_Witness ==
    /\ At("idle")
    /\ launched = 1
    /\ ui_process = None
    /\ 1 \notin alive
    /\ termDelivered[1] = 1
    /\ Capturing(1)

\* ---- C27

\* C27: when start() is about to return True, an install run of this call has
\* succeeded, port 3000 has responded and the handle is tracked.
C27_TrueMeansReady ==
    At("L490") =>
        /\ loc.install_ok
        /\ loc.gateway_ready = "True"
        /\ ui_process # None

\* ---- C28

\* the install invocations of this call so far
InstallRuns == Cardinality({i \in 1 .. Len(loc.spawned) : loc.spawned[i] = "npm install"})

InstallFailed == At("L207") /\ ForegroundStep /\ loc'.failure = "error"

FlipsLockfile == ~loc.use_npm_install /\ loc'.use_npm_install

FlipsPeer == ~loc.use_legacy_peer_deps /\ loc'.use_legacy_peer_deps

\* what lines 254-267 do with an unrecognized failure
HandledAsUnrecognized ==
    /\ loc'.charged = loc.charged + 1
    /\ IF loc.attempt < max_retries - 1
       THEN Top' = "L200"
       ELSE Top' = "L492" /\ loc'.error_msg = "failed to install dependencies"

\* C30: a failed install run flips the lockfile flag iff its output has a
\* lockfile marker and the flag is unset, and then leaves the peer-dependency
\* flag alone; else it flips the peer-dependency flag iff the output has a
\* peer-dependency marker and that flag is unset; a flag that is set is never
\* unset, so each flips at most once; a failure that flips no flag, as one
\* matching only markers of flags already set, is handled as unrecognized.
C30_FlipPriority ==
    [][InstallFailed =>
        /\ FlipsLockfile <=> ("lockfile" \in loc'.markers /\ ~loc.use_npm_install)
        /\ FlipsPeer <=> /\ "peer" \in loc'.markers
                         /\ ~loc.use_legacy_peer_deps
                         /\ ~FlipsLockfile
        /\ loc.use_npm_install => loc'.use_npm_install
        /\ loc.use_legacy_peer_deps => loc'.use_legacy_peer_deps
        /\ IF FlipsLockfile \/ FlipsPeer
           THEN Top' = "L200" /\ loc'.charged = loc.charged
           ELSE HandledAsUnrecognized
    ]_vars

\* the second run failed on a lockfile marker again, the flag set by the
\* first: it is the unrecognized failure that ends the call
C30_Witness ==
    /\ At("L492")
    /\ loc.failure = "error"
    /\ loc.markers = {"lockfile"}
    /\ loc.use_npm_install
    /\ ~loc.use_legacy_peer_deps
    /\ loc.charged = 1
    /\ loc.error_msg = "failed to install dependencies"

\* ---- C29

\* the buffer got one more line at its end
BufferAppended ==
    /\ Len(process_output') = Len(process_output) + 1
    /\ SubSeq(process_output', 1, Len(process_output)) = process_output

\* the buffer lost its oldest line, being above its limit
BufferEvicted ==
    /\ Len(process_output) > MaxOutputLines
    /\ process_output' = Tail(process_output)

\* C29: nothing empties the buffer: a step of start() or stop(), or a call of
\* them, leaves it as it is, and it changes only by the append of a capture
\* thread or by the eviction of its oldest line above the limit; the lines of
\* an earlier child are still there when a later start() reads it.
C29_BufferNeverCleared ==
    [][ /\ ForegroundStep => process_output' = process_output
        /\ calls' # calls => process_output' = process_output
        /\ process_output' # process_output => (BufferAppended \/ BufferEvicted)
      ]_vars

\* the second start() of the session has read, for its diagnostics, a line
\* captured from the first child
C29_Witness ==
    /\ loc.pending = 2
    /\ \E i \in 1 .. Len(loc.recent_output) : loc.recent_output[i].child = 1

====
